---- MODULE Spec2Model ----
(***************************************************************************)
(* Model of the GET /campaigns handler of src/api.py (get_campaign_data)   *)
(* over the two tables it reads (tbl_daily_campaigns, tbl_daily_scores)    *)
(* and the file response.json it writes and re-reads.                      *)
(*                                                                         *)
(* Python values are represented as follows.                               *)
(*   None            <<>>                                                  *)
(*   a present v     <<v>>   for request arguments and score columns       *)
(*   a date text     <<y, m, d>>  the three numeric fields of "Y-M-D"      *)
(*   a datetime      [year |-> y, month |-> m, day |-> d]                  *)
(*   a cpm           an integer number of thousandths                      *)
(*   a rounded cpm   an integer number of hundredths                       *)
(*   a dict          the sequence of its <<key, value>> pairs in order     *)
(***************************************************************************)
EXTENDS Integers, Sequences, FiniteSets

VARIABLES
    dailyCampaigns,   \* rows of tbl_daily_campaigns, in table order
    dailyScores,      \* rows of tbl_daily_scores, in table order
    file,             \* response.json: <<>> when absent, else <<content>>
    request,          \* the arguments of the last request handled
    scope,            \* campaign_id as resolved by the last request
    response_data,    \* response_data as built by the last request
    response          \* what the last request returned

vars == <<dailyCampaigns, dailyScores, file, request, scope, response_data, response>>

None == <<>>

Some(v) == <<v>>

\* Python truthiness of an optional string: None and "" are falsy.
Truthy(s) == s # None /\ s[1] # ""

----------------------------------------------------------------------------
(* datetime                                                                *)

IsLeap(y) == (y % 4 = 0) /\ ((y % 100 # 0) \/ (y % 400 = 0))

DaysInMonth(y, m) ==
    IF m = 2 THEN (IF IsLeap(y) THEN 29 ELSE 28)
    ELSE IF m \in {4, 6, 9, 11} THEN 30 ELSE 31

\* What datetime.strptime(text, "%Y-%m-%d") raises: "" when it returns.
StrptimeRaises(text) ==
    IF text = None THEN "TypeError"
    ELSE IF Len(text) # 3 THEN "ValueError"
    ELSE IF text[1] \notin 1..9999 \/ text[2] \notin 1..12 THEN "ValueError"
    ELSE IF text[3] \notin 1..DaysInMonth(text[1], text[2]) THEN "ValueError"
    ELSE ""

Strptime(text) == [year |-> text[1], month |-> text[2], day |-> text[3]]

MonthAbbr ==
    <<"Jan", "Feb", "Mar", "Apr", "May", "Jun", "Jul", "Aug", "Sep", "Oct", "Nov", "Dec">>

\* strftime("%d %b"): day and month name; the year is not part of it.
StrftimeDayMonth(dt) == <<dt.day, MonthAbbr[dt.month]>>

\* strftime("%Y-%m-%d")
StrftimeIso(dt) == <<dt.year, dt.month, dt.day>>

\* datetime comparison: by year, then month, then day.
DateLt(a, b) ==
    \/ a.year < b.year
    \/ a.year = b.year /\ a.month < b.month
    \/ a.year = b.year /\ a.month = b.month /\ a.day < b.day

DateLe(a, b) == a = b \/ DateLt(a, b)

RECURSIVE DaysBeforeMonth(_, _)
DaysBeforeMonth(y, m) ==
    IF m = 1 THEN 0 ELSE DaysBeforeMonth(y, m - 1) + DaysInMonth(y, m - 1)

ToOrdinal(dt) ==
    LET y == dt.year - 1
    IN  y * 365 + (y \div 4) - (y \div 100) + (y \div 400)
          + DaysBeforeMonth(dt.year, dt.month) + dt.day

\* (end - start).days
DaysBetween(start, end) == ToOrdinal(end) - ToOrdinal(start)

----------------------------------------------------------------------------
(* numbers                                                                 *)

\* round(float(cpm), 2), from thousandths to hundredths.  A value that is not
\* a tie goes to the nearest hundredth.  A tie x.xx5 that is a multiple of
\* 1/8 is an exact double and goes to the even hundredth.  Any other tie has
\* no exact double: the double nearest to the one the model draws (3.505)
\* lies below the tie, so it rounds down.
Round2(cpm) ==
    IF cpm % 10 # 5 THEN (cpm + 5) \div 10
    ELSE IF cpm % 125 = 0 /\ (cpm \div 10) % 2 = 1 THEN cpm \div 10 + 1
    ELSE cpm \div 10

\* IntDiv with round(total / count) in place of int(total / count).
IntDivRounded(total, count) == (2 * total + count) \div (2 * count)

\* int(total / count): true division, then truncation toward zero.
IntDiv(total, count) ==
    IF total >= 0 THEN total \div count ELSE -((-total) \div count)

----------------------------------------------------------------------------
(* dict: the sequence of <<key, value>> pairs in insertion order           *)

DictHas(d, k) == \E i \in 1..Len(d) : d[i][1] = k

DictGet(d, k) == d[CHOOSE i \in 1..Len(d) : d[i][1] = k][2]

\* d[k] = v: a new key is appended, an old key keeps its position.
DictSet(d, k, v) ==
    IF DictHas(d, k)
    THEN [i \in 1..Len(d) |-> IF d[i][1] = k THEN <<k, v>> ELSE d[i]]
    ELSE Append(d, <<k, v>>)

DictKeys(d) == [i \in 1..Len(d) |-> d[i][1]]

\* sorted(d.items()) of a dict keyed by datetime: ascending by key.
RECURSIVE InsertByDate(_, _)
InsertByDate(sorted, item) ==
    IF sorted = <<>> THEN <<item>>
    ELSE IF DateLt(item[1], Head(sorted)[1]) THEN <<item>> \o sorted
    ELSE <<Head(sorted)>> \o InsertByDate(Tail(sorted), item)

RECURSIVE SortedItems(_)
SortedItems(d) ==
    IF d = <<>> THEN <<>>
    ELSE InsertByDate(SortedItems(SubSeq(d, 1, Len(d) - 1)), d[Len(d)])

\* {date.strftime("%Y-%m-%d"): v for date, v in sorted_items}
FormatKeys(items) == [i \in 1..Len(items) |-> <<StrftimeIso(items[i][1]), items[i][2]>>]

\* The rows of a table that a WHERE campaign_id = :campaign_id keeps.
RECURSIVE WhereCampaign(_, _)
WhereCampaign(rows, id) ==
    IF rows = <<>> THEN <<>>
    ELSE IF Head(rows).campaign_id = id
         THEN <<Head(rows)>> \o WhereCampaign(Tail(rows), id)
         ELSE WhereCampaign(Tail(rows), id)

----------------------------------------------------------------------------
(* Scope resolution                                                        *)

\* SELECT 1 FROM tbl_daily_campaigns WHERE campaign_id = :campaign_id LIMIT 1
CampaignCheck(daily, id) == \E i \in 1..Len(daily) : daily[i].campaign_id = id

\* ResolveScope with the except branch re-raising nothing and resetting
\* nothing: the id survives an existence check that raises.
ResolveScopeFailClosed(campaign_id, checkRaises, daily) ==
    IF ~Truthy(campaign_id) THEN campaign_id
    ELSE IF checkRaises THEN campaign_id
    ELSE IF ~CampaignCheck(daily, campaign_id[1]) THEN Some("All")
    ELSE campaign_id

\* ResolveScope with an absent or empty id defaulting to 'All'.
ResolveScopeAbsentAll(campaign_id, checkRaises, daily) ==
    IF ~Truthy(campaign_id) THEN Some("All")
    ELSE IF checkRaises THEN Some("All")
    ELSE IF ~CampaignCheck(daily, campaign_id[1]) THEN Some("All")
    ELSE campaign_id

\* campaign_id after the try block: an id whose existence check finds no row,
\* or raises, becomes 'All'; an absent or empty id is left as it is.
ResolveScope(campaign_id, checkRaises, daily) ==
    IF ~Truthy(campaign_id) THEN campaign_id
    ELSE IF checkRaises THEN Some("All")
    ELSE IF ~CampaignCheck(daily, campaign_id[1]) THEN Some("All")
    ELSE campaign_id

----------------------------------------------------------------------------
(* Campaign Card                                                           *)

\* A builder returns [exc, value]: exc names the exception that escapes it,
\* "" when it returns value.
Raised(exc) == [exc |-> exc, value |-> <<>>]

Returned(value) == [exc |-> "", value |-> value]

\* The exception the two strptime calls of one statement raise, left first.
StrptimeBoth(a, b) ==
    IF StrptimeRaises(a) # "" THEN StrptimeRaises(a) ELSE StrptimeRaises(b)

CardEntry(campaign_name, start_date_db, end_date_db) ==
    LET start_date_obj == Strptime(start_date_db)
        end_date_obj == Strptime(end_date_db)
    IN  [campaignName |-> campaign_name,
         range |-> <<StrftimeDayMonth(start_date_obj), StrftimeDayMonth(end_date_obj)>>,
         days |-> DaysBetween(start_date_obj, end_date_obj)]

\* CampaignKey with the campaign name alone as the key.
CampaignKeyNameOnly(entry) == <<entry.campaignName>>

\* campaign_key of an entry: (campaign_name, start_date_formatted, end_date_formatted)
CampaignKey(entry) == <<entry.campaignName, entry.range[1], entry.range[2]>>

RECURSIVE AllCampaignsLoop(_, _, _, _)
AllCampaignsLoop(campaigns, i, seen_campaigns, all_campaigns_data) ==
    IF i > Len(campaigns) THEN Returned(all_campaigns_data)
    ELSE LET c == campaigns[i]
         IN  IF StrptimeBoth(c.start_date, c.end_date) # ""
             THEN Raised(StrptimeBoth(c.start_date, c.end_date))
             ELSE LET e == CardEntry(c.campaign_name, c.start_date, c.end_date)
                  IN  IF CampaignKey(e) \notin seen_campaigns
                      THEN AllCampaignsLoop(campaigns, i + 1,
                               seen_campaigns \cup {CampaignKey(e)},
                               Append(all_campaigns_data, e))
                      ELSE AllCampaignsLoop(campaigns, i + 1,
                               seen_campaigns, all_campaigns_data)

\* campaignCard for 'All': a list.
CampaignCardAll(scores) ==
    LET r == AllCampaignsLoop(scores, 1, {}, <<>>)
    IN  IF r.exc # "" THEN r
        ELSE Returned([kind |-> "list", items |-> r.value])

\* CampaignCardById with `if date_range:` in place of
\* `if campaign_name and date_range:`.
CampaignCardByIdNoNameCheck(id, daily, scores) ==
    LET names == WhereCampaign(daily, id)
        campaign_name == IF names = <<>> THEN None ELSE names[1].campaign_name
        dates == WhereCampaign(scores, id)
    IN  IF dates # <<>>
        THEN IF StrptimeBoth(dates[1].start_date, dates[1].end_date) # ""
             THEN Raised(StrptimeBoth(dates[1].start_date, dates[1].end_date))
             ELSE Returned([kind |-> "object",
                            items |-> <<CardEntry(campaign_name,
                                           dates[1].start_date, dates[1].end_date)>>])
        ELSE Raised("NotFound")

\* campaignCard for one campaign: a single object, or "NotFound".
CampaignCardById(id, daily, scores) ==
    LET names == WhereCampaign(daily, id)
        campaign_name == IF names = <<>> THEN None ELSE names[1].campaign_name
        dates == WhereCampaign(scores, id)
    IN  IF Truthy(campaign_name) /\ dates # <<>>
        THEN IF StrptimeBoth(dates[1].start_date, dates[1].end_date) # ""
             THEN Raised(StrptimeBoth(dates[1].start_date, dates[1].end_date))
             ELSE Returned([kind |-> "object",
                            items |-> <<CardEntry(campaign_name,
                                           dates[1].start_date, dates[1].end_date)>>])
        ELSE Raised("NotFound")

----------------------------------------------------------------------------
(* Performance Metrics                                                     *)

RECURSIVE SumField(_, _)
SumField(rows, f) ==
    IF rows = <<>> THEN 0 ELSE rows[1][f] + SumField(Tail(rows), f)

PerformanceMetrics(interactions) ==
    [impressions |-> SumField(interactions, "impressions"),
     clicks |-> SumField(interactions, "clicks"),
     views |-> SumField(interactions, "views")]

----------------------------------------------------------------------------
(* Volume Unit Cost Trend                                                  *)

\* The exception the three strptime calls of one loop turn raise.
TrendParseRaises(start_date_api, end_date_api, input_date) ==
    IF StrptimeRaises(start_date_api) # "" THEN StrptimeRaises(start_date_api)
    ELSE IF StrptimeRaises(end_date_api) # "" THEN StrptimeRaises(end_date_api)
    ELSE StrptimeRaises(input_date)

\* InWindow with < in place of <= at the end of the window.
InWindowOpenEnd(input_date_obj, start_date_api_obj, end_date_api_obj) ==
    DateLe(start_date_api_obj, input_date_obj) /\ DateLt(input_date_obj, end_date_api_obj)

\* (input_date_obj >= start_date_api_obj) and (input_date_obj <= end_date_api_obj)
InWindow(input_date_obj, start_date_api_obj, end_date_api_obj) ==
    DateLe(start_date_api_obj, input_date_obj) /\ DateLe(input_date_obj, end_date_api_obj)

\* TrendStepAll with = in place of += for a date already seen.
TrendStepAllOverwriting(acc, trend, start_date_api_obj, end_date_api_obj) ==
    LET input_date_obj == Strptime(trend.date)
    IN  IF ~(DateLe(start_date_api_obj, input_date_obj)
             /\ DateLe(input_date_obj, end_date_api_obj)) THEN acc
        ELSE [control_set |-> acc.control_set \cup {input_date_obj},
              impression_dict |-> DictSet(acc.impression_dict, input_date_obj, trend.impressions),
              cpm_dict |-> DictSet(acc.cpm_dict, input_date_obj, Round2(trend.cpm))]

\* One turn of the 'All' loop on the dicts acc = [control_set, impression_dict, cpm_dict].
\* The += on cpm_dict adds doubles; the model adds the hundredths exactly.
TrendStepAll(acc, trend, start_date_api_obj, end_date_api_obj) ==
    LET input_date_obj == Strptime(trend.date)
    IN  IF ~InWindow(input_date_obj, start_date_api_obj, end_date_api_obj) THEN acc
        ELSE IF input_date_obj \in acc.control_set
        THEN [acc EXCEPT
                !.impression_dict = DictSet(@, input_date_obj,
                    DictGet(@, input_date_obj) + trend.impressions),
                !.cpm_dict = DictSet(@, input_date_obj,
                    DictGet(@, input_date_obj) + Round2(trend.cpm))]
        ELSE [control_set |-> acc.control_set \cup {input_date_obj},
              impression_dict |-> DictSet(acc.impression_dict, input_date_obj, trend.impressions),
              cpm_dict |-> DictSet(acc.cpm_dict, input_date_obj, Round2(trend.cpm))]

\* TrendStepById with the accumulation of the 'All' loop.
TrendStepByIdAdding(acc, trend, start_date_api_obj, end_date_api_obj) ==
    TrendStepAll(acc, trend, start_date_api_obj, end_date_api_obj)

\* One turn of the single-campaign loop: plain assignment.
TrendStepById(acc, trend, start_date_api_obj, end_date_api_obj) ==
    LET input_date_obj == Strptime(trend.date)
    IN  IF ~InWindow(input_date_obj, start_date_api_obj, end_date_api_obj) THEN acc
        ELSE [control_set |-> acc.control_set,
              impression_dict |-> DictSet(acc.impression_dict, input_date_obj, trend.impressions),
              cpm_dict |-> DictSet(acc.cpm_dict, input_date_obj, Round2(trend.cpm))]

\* TrendLoop with the two bounds parsed ahead of the loop, not in each turn.
RECURSIVE TrendLoopParseFirst(_, _, _, _, _, _)
TrendLoopParseFirst(trends, i, acc, start_date_api, end_date_api, all) ==
    IF StrptimeBoth(start_date_api, end_date_api) # ""
    THEN Raised(StrptimeBoth(start_date_api, end_date_api))
    ELSE IF i > Len(trends) THEN Returned(acc)
    ELSE IF StrptimeRaises(trends[i].date) # "" THEN Raised(StrptimeRaises(trends[i].date))
    ELSE TrendLoopParseFirst(trends, i + 1,
             IF all
             THEN TrendStepAll(acc, trends[i], Strptime(start_date_api), Strptime(end_date_api))
             ELSE TrendStepById(acc, trends[i], Strptime(start_date_api), Strptime(end_date_api)),
             start_date_api, end_date_api, all)

RECURSIVE TrendLoop(_, _, _, _, _, _)
TrendLoop(trends, i, acc, start_date_api, end_date_api, all) ==
    IF i > Len(trends) THEN Returned(acc)
    ELSE IF TrendParseRaises(start_date_api, end_date_api, trends[i].date) # ""
    THEN Raised(TrendParseRaises(start_date_api, end_date_api, trends[i].date))
    ELSE TrendLoop(trends, i + 1,
             IF all
             THEN TrendStepAll(acc, trends[i], Strptime(start_date_api), Strptime(end_date_api))
             ELSE TrendStepById(acc, trends[i], Strptime(start_date_api), Strptime(end_date_api)),
             start_date_api, end_date_api, all)

\* volumeUnitCostTrend.impressionsCpm: the two dicts, sorted and keyed by text.
VolumeUnitCostTrend(trends, start_date_api, end_date_api, all) ==
    LET r == TrendLoop(trends, 1,
                 [control_set |-> {}, impression_dict |-> <<>>, cpm_dict |-> <<>>],
                 start_date_api, end_date_api, all)
    IN  IF r.exc # "" THEN r
        ELSE Returned([impression |-> FormatKeys(SortedItems(r.value.impression_dict)),
                       cpm |-> FormatKeys(SortedItems(r.value.cpm_dict))])

TrendAll(daily, start_date_api, end_date_api) ==
    VolumeUnitCostTrend(daily, start_date_api, end_date_api, TRUE)

TrendById(id, daily, start_date_api, end_date_api) ==
    VolumeUnitCostTrend(WhereCampaign(daily, id), start_date_api, end_date_api, FALSE)

----------------------------------------------------------------------------
(* Campaign Table                                                          *)

NewGroup(row) ==
    [start_date |-> row.start_date, end_date |-> row.end_date,
     campaign_name |-> row.campaign_name,
     total_effectiveness |-> 0, effectiveness_count |-> 0,
     total_media_score |-> 0, media_count |-> 0,
     total_creative_score |-> 0, creative_count |-> 0]

\* AddScores with the dates and the name of the group taken from every row.
AddScoresOverwriting(g, row) ==
    [g EXCEPT !.start_date = row.start_date,
              !.end_date = row.end_date,
              !.campaign_name = row.campaign_name,
              !.total_effectiveness = @ + row.effectiveness[1],
              !.effectiveness_count = @ + 1,
              !.total_media_score = @ + row.media[1],
              !.media_count = @ + 1,
              !.total_creative_score = @ + row.creative[1],
              !.creative_count = @ + 1]

\* The three += of one row: every score is added and counted.
AddScores(g, row) ==
    [g EXCEPT !.total_effectiveness = @ + row.effectiveness[1],
              !.effectiveness_count = @ + 1,
              !.total_media_score = @ + row.media[1],
              !.media_count = @ + 1,
              !.total_creative_score = @ + row.creative[1],
              !.creative_count = @ + 1]

\* int + None raises TypeError.
ScoreRaises(row) ==
    IF row.effectiveness = None \/ row.media = None \/ row.creative = None
    THEN "TypeError" ELSE ""

\* What campaigns_data holds when the row that raises has been reached: the
\* group of the row exists by then.
RECURSIVE GroupLoop(_, _, _)
GroupLoop(campaign_data, i, campaigns_data) ==
    IF i > Len(campaign_data) THEN Returned(campaigns_data)
    ELSE LET row == campaign_data[i]
             adin_id == row.campaign_id
             grouped == IF DictHas(campaigns_data, adin_id) THEN campaigns_data
                        ELSE DictSet(campaigns_data, adin_id, NewGroup(row))
         IN  IF ScoreRaises(row) # "" THEN Raised(ScoreRaises(row))
             ELSE GroupLoop(campaign_data, i + 1,
                      DictSet(grouped, adin_id, AddScores(DictGet(grouped, adin_id), row)))

Average(total, count) == IF count > 0 THEN IntDiv(total, count) ELSE 0

\* campaignTable: seven parallel lists, one position per key of campaigns_data.
CampaignTable(scores) ==
    LET r == GroupLoop(scores, 1, <<>>)
        d == r.value
    IN  IF r.exc # "" THEN r
        ELSE Returned(
          [start_date |-> [i \in 1..Len(d) |-> d[i][2].start_date],
           end_date |-> [i \in 1..Len(d) |-> d[i][2].end_date],
           adin_id |-> DictKeys(d),
           campaign |-> [i \in 1..Len(d) |-> d[i][2].campaign_name],
           effectiveness |-> [i \in 1..Len(d) |->
               Average(d[i][2].total_effectiveness, d[i][2].effectiveness_count)],
           media |-> [i \in 1..Len(d) |->
               Average(d[i][2].total_media_score, d[i][2].media_count)],
           creative |-> [i \in 1..Len(d) |->
               Average(d[i][2].total_creative_score, d[i][2].creative_count)]])

----------------------------------------------------------------------------
(* The handler                                                             *)

\* response_data before any facet is set.
EmptyData ==
    [campaignCard |-> None, performanceMetrics |-> None,
     volumeUnitCostTrend |-> None, campaignTable |-> None]

\* jsonify({'error': ...}), status: nothing else is in the body.
ErrorResponse(status, error) ==
    [status |-> status, error |-> error, via |-> "jsonify", data |-> EmptyData]

\* An exception that escapes the handler: the framework answers 500.
FatalResponse(exc) == ErrorResponse(500, exc)

\* What a request that ran to line 357 with `data` returns, and leaves in
\* response.json: the file's content if the file exists, else `data`, which
\* it writes.
SendOrWrite(data, f) ==
    IF f # None
    THEN [response |-> [status |-> 200, error |-> "", via |-> "send_file", data |-> f[1]],
          file |-> f]
    ELSE [response |-> [status |-> 200, error |-> "", via |-> "jsonify", data |-> data],
          file |-> Some(data)]

\* An outcome that returns or raises before line 357.
Early(id, resp, f) ==
    [scope |-> id, response_data |-> EmptyData, response |-> resp, file |-> f]

\* get_campaign_data on the tables `daily` and `scores` with response.json = f.
Handle(req, daily, scores, f) ==
    LET id == ResolveScope(req.campaign_id, req.checkRaises, daily)
        all == (id = Some("All"))
    IN  IF ~all /\ ~Truthy(id)
        THEN Early(id, ErrorResponse(400, "No campaign_id provided."), f)
        ELSE
        LET card == IF all THEN CampaignCardAll(scores)
                    ELSE CampaignCardById(id[1], daily, scores)
            rows == IF all THEN daily ELSE WhereCampaign(daily, id[1])
            trend == IF all THEN TrendAll(daily, req.start_date, req.end_date)
                     ELSE TrendById(id[1], daily, req.start_date, req.end_date)
            table == CampaignTable(scores)
        IN  IF card.exc = "NotFound"
            THEN Early(id, ErrorResponse(404, "Campaign not found."), f)
            ELSE IF card.exc # "" THEN Early(id, FatalResponse(card.exc), f)
            ELSE IF trend.exc # "" THEN Early(id, FatalResponse(trend.exc), f)
            ELSE IF table.exc # "" THEN Early(id, FatalResponse(table.exc), f)
            ELSE
            LET data == [campaignCard |-> Some(card.value),
                         performanceMetrics |-> Some(PerformanceMetrics(rows)),
                         volumeUnitCostTrend |-> Some(trend.value),
                         campaignTable |-> Some(table.value)]
                out == SendOrWrite(data, f)
            IN  [scope |-> id, response_data |-> data,
                 response |-> out.response, file |-> out.file]

\* One GET /campaigns.  checkRaises: the existence check raises.
GetCampaignData(campaign_id, start_date_api, end_date_api, checkRaises) ==
    LET req == [campaign_id |-> campaign_id, start_date |-> start_date_api,
                end_date |-> end_date_api, checkRaises |-> checkRaises]
    IN  \E r \in {Handle(req, dailyCampaigns, dailyScores, file)} :
        /\ request' = req
        /\ scope' = r.scope
        /\ response_data' = r.response_data
        /\ response' = r.response
        /\ file' = r.file
        /\ UNCHANGED <<dailyCampaigns, dailyScores>>

----------------------------------------------------------------------------
(* Tables and requests                                                     *)

MaxDaily == 2

MaxScores == 3

SeqsUpTo(S, n) == UNION {[1..k -> S] : k \in 0..n}

D1 == <<2024, 1, 5>>

D2 == <<2024, 1, 6>>

D3 == <<2024, 2, 1>>

DailyRow(id, name, date, impressions, cpm) ==
    [campaign_id |-> id, campaign_name |-> name, date |-> date,
     impressions |-> impressions, clicks |-> 3, views |-> 2, cpm |-> cpm]

ScoreRow(id, name, start, end, e, m, c) ==
    [start_date |-> start, end_date |-> end, campaign_id |-> id, campaign_name |-> name,
     effectiveness |-> e, media |-> m, creative |-> c]

\* Daily rows of two campaigns on three dates; those of c1 with two
\* (impressions, cpm) pairs.
TrendRows ==
    {DailyRow("c1", Some("Alpha"), d, m[1], m[2]) :
        d \in {D1, D2, D3}, m \in {<<100, 2000>>, <<50, 3505>>}}
    \cup {DailyRow("c2", Some("Beta"), d, 50, 3505) : d \in {D1, D2, D3}}

\* Daily rows of a named campaign, a campaign whose name is NULL, and a second
\* named campaign.
MainDailyRows ==
    {DailyRow("c1", Some("Alpha"), D1, 100, 2000),
     DailyRow("c1", None, D2, 50, 3505),
     DailyRow("c2", Some("Beta"), D1, 50, 3505)}

\* Score rows: two rows of c1 whose dates differ in the year only, rows with a
\* negative score, with an end before the start, and with a score that is NULL.
ScoreRows ==
    {ScoreRow("c1", Some("Alpha"), <<2024, 1, 1>>, <<2024, 1, 11>>, Some(7), Some(8), Some(9)),
     ScoreRow("c1", Some("Alpha"), <<2023, 1, 1>>, <<2024, 1, 11>>, Some(8), Some(8), Some(8)),
     ScoreRow("c2", Some("Beta"), <<2024, 1, 1>>, <<2024, 1, 11>>, Some(-3), Some(0), Some(1)),
     ScoreRow("c2", Some("Alpha"), <<2024, 1, 11>>, <<2024, 1, 1>>, Some(0), Some(5), Some(2)),
     ScoreRow("c1", Some("Beta"), <<2024, 2, 29>>, <<2024, 3, 1>>, None, Some(5), Some(5))}

MainScoreTables ==
    {<<>>,
     <<ScoreRow("c2", Some("Beta"), <<2024, 1, 1>>, <<2024, 1, 11>>, Some(7), Some(8), Some(9))>>,
     <<ScoreRow("c1", Some("Alpha"), <<2024, 1, 1>>, <<2024, 1, 11>>, Some(7), Some(8), Some(9)),
       ScoreRow("c2", Some("Beta"), <<2024, 1, 1>>, <<2024, 1, 11>>, Some(8), Some(8), Some(8))>>}

ScoreDailyTables ==
    {<<DailyRow("c1", Some("Alpha"), D1, 100, 2000)>>}

TrendScoreTables ==
    {<<ScoreRow("c1", Some("Alpha"), <<2024, 1, 1>>, <<2024, 1, 11>>, Some(7), Some(8), Some(9))>>}

NoRequest ==
    [campaign_id |-> None, start_date |-> None, end_date |-> None, checkRaises |-> FALSE]

NoResponse == [status |-> 0, error |-> "", via |-> "", data |-> EmptyData]

InitTables(dailyTables, scoreTables) ==
    /\ dailyCampaigns \in dailyTables
    /\ dailyScores \in scoreTables
    /\ file = None
    /\ request = NoRequest
    /\ scope = None
    /\ response_data = EmptyData
    /\ response = NoResponse

\* Requests with every kind of campaign_id, over small tables.
Init == InitTables(SeqsUpTo(MainDailyRows, MaxDaily), MainScoreTables)

Next ==
    \E campaign_id \in {None, Some(""), Some("All"), Some("c1"), Some("c2"), Some("zz")},
       start_date_api \in {None, D1}, checkRaises \in BOOLEAN :
        GetCampaignData(campaign_id, start_date_api, D3, checkRaises)

Spec == Init /\ [][Next]_vars

\* Requests for 'All' and for one campaign, over every daily table.
InitTrend == InitTables(SeqsUpTo(TrendRows, MaxDaily), TrendScoreTables)

NextTrend ==
    \E campaign_id \in {Some("All"), Some("c1")},
       start_date_api \in {D1, D2}, end_date_api \in {D2, D3} :
        GetCampaignData(campaign_id, start_date_api, end_date_api, FALSE)

SpecTrend == InitTrend /\ [][NextTrend]_vars

\* Requests for 'All' and for one campaign, over every score table.
InitScores == InitTables(ScoreDailyTables, SeqsUpTo(ScoreRows, MaxScores))

NextScores ==
    \E campaign_id \in {Some("All"), Some("c1")} :
        GetCampaignData(campaign_id, D1, D3, FALSE)

SpecScores == InitScores /\ [][NextScores]_vars

\* Requests for 'All' and for one campaign with either bound of the window
\* present or absent, over small tables.
NextWindow ==
    \E campaign_id \in {Some("All"), Some("c1")},
       start_date_api \in {None, D1}, end_date_api \in {None, D3} :
        GetCampaignData(campaign_id, start_date_api, end_date_api, FALSE)

SpecWindow == Init /\ [][NextWindow]_vars

----------------------------------------------------------------------------
(* Properties                                                              *)

\* A request has been handled.
Served == response.status # 0

\* The last request ran to line 357: every facet of response_data is set.
Built == response_data.campaignTable # None

\* The last request is for 'All' after resolution and built its facets.
BuiltAll == Built /\ scope = Some("All")

\* The last request is for one campaign after resolution and built its facets.
BuiltById == Built /\ scope # Some("All")

\* The request supplies an id that the existence check does not find, or on
\* which the existence check raises.
UnknownOrErroring(req) ==
    /\ Truthy(req.campaign_id)
    /\ \/ req.checkRaises
       \/ \A i \in 1..Len(dailyCampaigns) : dailyCampaigns[i].campaign_id # req.campaign_id[1]

\* The same request with campaign_id = 'All' and an existence check that returns.
AsAll(req) == [req EXCEPT !.campaign_id = Some("All"), !.checkRaises = FALSE]

\* C1: a request whose campaign id is not found by the existence check, or
\* whose existence check raises, resolves to 'All' and returns what the same
\* request with campaign_id = 'All' returns on the same tables and the same
\* response.json; it returns neither 404 nor 400.
C1_FailOpenToAll ==
    [][UnknownOrErroring(request') =>
        /\ scope' = Some("All")
        /\ response' = Handle(AsAll(request'), dailyCampaigns, dailyScores, file).response
        /\ file' = Handle(AsAll(request'), dailyCampaigns, dailyScores, file).file
        /\ response'.status \notin {400, 404}]_vars

\* C1 witness: the check raised on an id that exists, and the request was
\* answered with the facets of 'All' (campaignCard is a list).
C1_Witness ==
    /\ request.campaign_id = Some("c1")
    /\ request.checkRaises
    /\ \E i \in 1..Len(dailyCampaigns) : dailyCampaigns[i].campaign_id = "c1"
    /\ response.status = 200
    /\ response.via = "jsonify"
    /\ response.data.campaignCard[1].kind = "list"

\* C2 (as claimed): the response of every request that succeeds is the
\* aggregation built by that request from its own scope, window and records.
C2_Stateless == (response.status = 200) => (response.data = response_data)

\* C3 (as claimed): a request without a campaign id resolves to 'All' and is
\* served as an 'All' aggregation.
C3_AbsentResolvesToAll ==
    (Served /\ request.campaign_id = None) => (scope = Some("All") /\ response.status # 400)

\* C3 (amended): a request without a campaign id (absent or empty) is not
\* resolved to 'All': it is answered 400 'No campaign_id provided.' with no
\* facet.
C3_AbsentIsRejected ==
    (Served /\ ~Truthy(request.campaign_id)) =>
        /\ scope = request.campaign_id
        /\ response.status = 400
        /\ response.error = "No campaign_id provided."
        /\ response.data = EmptyData
        /\ response_data = EmptyData

\* C3 witness: a request without campaign_id was answered 400.
C3_Witness == Served /\ request.campaign_id = None /\ response.status = 400

\* The rows of tbl_daily_campaigns, tbl_daily_scores of campaign id, by index.
DailyOf(id) == {i \in 1..Len(dailyCampaigns) : dailyCampaigns[i].campaign_id = id}

ScoresOf(id) == {i \in 1..Len(dailyScores) : dailyScores[i].campaign_id = id}

Min(S) == CHOOSE x \in S : \A y \in S : x <= y

Max(S) == CHOOSE x \in S : \A y \in S : x >= y

\* The name lookup of campaign id yields a name.
NameFound(id) ==
    /\ DailyOf(id) # {}
    /\ dailyCampaigns[Min(DailyOf(id))].campaign_name \notin {None, Some("")}

\* The date-range lookup of campaign id yields a row.
DatesFound(id) == ScoresOf(id) # {}

\* The last request kept the id it supplied: the id exists and the check returned.
SingleScope == Served /\ Truthy(scope) /\ scope # Some("All")

\* C4: for an existing campaign id, if the name lookup or the date-range lookup
\* yields nothing the request is answered 404 'Campaign not found.' with no
\* facet; if both yield something it is not answered 404, and the campaignCard
\* it builds is a single object {campaignName, range, days}, not a list.
C4_SingleScopeNotFound ==
    SingleScope =>
        /\ ~(NameFound(scope[1]) /\ DatesFound(scope[1])) =>
              /\ response.status = 404
              /\ response.error = "Campaign not found."
              /\ response.data = EmptyData
              /\ response_data = EmptyData
        /\ (NameFound(scope[1]) /\ DatesFound(scope[1])) =>
              /\ response.status \in {200, 500}
              /\ response.status = 200 =>
                    /\ response_data.campaignCard[1].kind = "object"
                    /\ Len(response_data.campaignCard[1].items) = 1
                    /\ response_data.campaignCard[1].items[1].campaignName =
                           dailyCampaigns[Min(DailyOf(scope[1]))].campaign_name
                    /\ response_data.campaignCard[1].items[1].days =
                           DaysBetween(Strptime(dailyScores[Min(ScoresOf(scope[1]))].start_date),
                                       Strptime(dailyScores[Min(ScoresOf(scope[1]))].end_date))

\* C4 witness: the name of an existing campaign is NULL, its dates, its daily
\* rows and the window are there, and the request was answered 404.
C4_Witness ==
    /\ SingleScope
    /\ ~NameFound(scope[1])
    /\ DatesFound(scope[1])
    /\ request.start_date # None
    /\ response.status = 404

----------------------------------------------------------------------------
(* Campaign card of 'All'                                                  *)

\* The (campaignName, 'DD Mon', 'DD Mon') triple of score row r, read off the
\* row's texts, and its days.
RowTriple(r) ==
    <<dailyScores[r].campaign_name,
      <<dailyScores[r].start_date[3], MonthAbbr[dailyScores[r].start_date[2]]>>,
      <<dailyScores[r].end_date[3], MonthAbbr[dailyScores[r].end_date[2]]>>>>

RowDays(r) ==
    ToOrdinal(Strptime(dailyScores[r].end_date)) - ToOrdinal(Strptime(dailyScores[r].start_date))

ItemTriple(item) == <<item.campaignName, item.range[1], item.range[2]>>

\* The first score row that has triple t.
FirstRow(t) == Min({r \in 1..Len(dailyScores) : RowTriple(r) = t})

CardItems == response_data.campaignCard[1].items

\* C5: the campaignCard list of 'All' has no two entries with the same
\* (campaignName, 'DD Mon' start, 'DD Mon' end) triple, has an entry for every
\* triple of the score rows and no other, lists the entries in the order in
\* which their triples first occur in the rows, and gives each entry the days
\* of the first row with its triple.
C5_DedupAllSummary ==
    BuiltAll =>
        /\ response_data.campaignCard[1].kind = "list"
        /\ \A i, j \in 1..Len(CardItems) :
              i # j => ItemTriple(CardItems[i]) # ItemTriple(CardItems[j])
        /\ \A r \in 1..Len(dailyScores) :
              \E i \in 1..Len(CardItems) : ItemTriple(CardItems[i]) = RowTriple(r)
        /\ \A i \in 1..Len(CardItems) :
              \E r \in 1..Len(dailyScores) : RowTriple(r) = ItemTriple(CardItems[i])
        /\ \A i, j \in 1..Len(CardItems) :
              i < j => FirstRow(ItemTriple(CardItems[i])) < FirstRow(ItemTriple(CardItems[j]))
        /\ \A i \in 1..Len(CardItems) :
              CardItems[i].days = RowDays(FirstRow(ItemTriple(CardItems[i])))

\* C5 witness: two rows with the same triple and different days (their years
\* differ) stand around a row with another triple, and the list has two entries.
C5_Witness ==
    /\ BuiltAll
    /\ Len(dailyScores) = 3
    /\ RowTriple(1) = RowTriple(3)
    /\ RowTriple(1) # RowTriple(2)
    /\ RowDays(1) # RowDays(3)
    /\ Len(CardItems) = 2

----------------------------------------------------------------------------
(* Trend                                                                   *)

\* The daily rows the trend of the resolved scope reads, by index.
ScopeRows ==
    IF scope = Some("All") THEN 1..Len(dailyCampaigns) ELSE DailyOf(scope[1])

\* Day number of a date text.
DayNumber(text) == ToOrdinal(Strptime(text))

\* Row i lies in the requested window, both ends included.
RowInWindow(i) ==
    /\ DayNumber(request.start_date) <= DayNumber(dailyCampaigns[i].date)
    /\ DayNumber(dailyCampaigns[i].date) <= DayNumber(request.end_date)

\* The rows of the scope that lie in the window and have date text k.
RowsOn(k) == {i \in ScopeRows : RowInWindow(i) /\ dailyCampaigns[i].date = k}

RECURSIVE SumImpressions(_)
SumImpressions(rows) ==
    IF rows = {} THEN 0
    ELSE dailyCampaigns[Min(rows)].impressions + SumImpressions(rows \ {Min(rows)})

RECURSIVE SumRoundedCpm(_)
SumRoundedCpm(rows) ==
    IF rows = {} THEN 0
    ELSE Round2(dailyCampaigns[Min(rows)].cpm) + SumRoundedCpm(rows \ {Min(rows)})

RECURSIVE SumValues(_)
SumValues(d) == IF d = <<>> THEN 0 ELSE d[1][2] + SumValues(Tail(d))

TrendImpression == response_data.volumeUnitCostTrend[1].impression

TrendCpm == response_data.volumeUnitCostTrend[1].cpm

\* C6: in the trend of 'All' the impressions under each date are the sum of
\* the impressions of all daily rows of that date, and the impressions of all
\* output dates add up to the impressions of all daily rows in the window.
C6_AdditiveTrend ==
    BuiltAll =>
        /\ \A n \in 1..Len(TrendImpression) :
              TrendImpression[n][2] = SumImpressions(RowsOn(TrendImpression[n][1]))
        /\ SumValues(TrendImpression) =
              SumImpressions({i \in 1..Len(dailyCampaigns) : RowInWindow(i)})

\* C6 witness: two rows of different campaigns share a date in the window
\* and the date holds 100 + 50.
C6_Witness ==
    /\ BuiltAll
    /\ \E i, j \in 1..Len(dailyCampaigns) :
          /\ dailyCampaigns[i].date = dailyCampaigns[j].date
          /\ dailyCampaigns[i].campaign_id # dailyCampaigns[j].campaign_id
          /\ RowInWindow(i)
          /\ \E n \in 1..Len(TrendImpression) :
                /\ TrendImpression[n][1] = dailyCampaigns[i].date
                /\ TrendImpression[n][2] = 150

\* C7: in both scopes every key of the two trend mappings lies in
\* [start, end], every date of a row of the scope that lies in [start, end]
\* is a key, the two mappings have the same keys, and the keys ascend.
C7_WindowFilter ==
    Built =>
        /\ DictKeys(TrendImpression) = DictKeys(TrendCpm)
        /\ \A n \in 1..Len(TrendImpression) :
              /\ DayNumber(request.start_date) <= DayNumber(TrendImpression[n][1])
              /\ DayNumber(TrendImpression[n][1]) <= DayNumber(request.end_date)
        /\ \A i \in ScopeRows :
              RowInWindow(i) =>
                  \E n \in 1..Len(TrendImpression) : TrendImpression[n][1] = dailyCampaigns[i].date
        /\ \A m, n \in 1..Len(TrendImpression) :
              m < n => DayNumber(TrendImpression[m][1]) < DayNumber(TrendImpression[n][1])

\* C7 witness: a single-campaign trend with one row of the campaign on the
\* end of the window, which is a key, and another row of it after the window.
C7_Witness ==
    /\ BuiltById
    /\ \E i, j \in ScopeRows :
          /\ dailyCampaigns[i].date = request.end_date
          /\ DayNumber(request.end_date) < DayNumber(dailyCampaigns[j].date)
          /\ DictKeys(TrendImpression) = <<request.end_date>>

\* C9: in the trend of one campaign a date holds the impressions and the
\* rounded cost of the last row of the campaign with that date; in the trend
\* of 'All' it holds the sums over all rows with that date.
C9_DuplicateDatePolicy ==
    /\ BuiltById =>
          \A n \in 1..Len(TrendImpression) :
              /\ RowsOn(TrendImpression[n][1]) # {}
              /\ TrendImpression[n][2] =
                     dailyCampaigns[Max(RowsOn(TrendImpression[n][1]))].impressions
              /\ TrendCpm[n][2] =
                     Round2(dailyCampaigns[Max(RowsOn(TrendImpression[n][1]))].cpm)
    /\ BuiltAll =>
          \A n \in 1..Len(TrendImpression) :
              /\ TrendImpression[n][2] = SumImpressions(RowsOn(TrendImpression[n][1]))
              /\ TrendCpm[n][2] = SumRoundedCpm(RowsOn(TrendImpression[n][1]))

\* C9 witness: two rows of the requested campaign share a date in the window
\* with different impressions, and the date holds those of the later row.
C9_Witness ==
    /\ BuiltById
    /\ \E i, j \in ScopeRows :
          /\ i < j
          /\ dailyCampaigns[i].date = dailyCampaigns[j].date
          /\ dailyCampaigns[i].impressions # dailyCampaigns[j].impressions
          /\ RowInWindow(i)
          /\ \E n \in 1..Len(TrendImpression) :
                /\ TrendImpression[n][1] = dailyCampaigns[j].date
                /\ TrendImpression[n][2] = dailyCampaigns[j].impressions

----------------------------------------------------------------------------
(* Campaign table                                                          *)

Table == response_data.campaignTable[1]

Metrics == {"effectiveness", "media", "creative"}

\* The score rows of campaign id that carry metric m.
Carrying(id, m) == {r \in ScoresOf(id) : dailyScores[r][m] # None}

RECURSIVE SumScores(_, _)
SumScores(rows, m) ==
    IF rows = {} THEN 0
    ELSE dailyScores[Min(rows)][m][1] + SumScores(rows \ {Min(rows)}, m)

MaxScore(rows, m) == Max({dailyScores[r][m][1] : r \in rows})

Abs(x) == IF x < 0 THEN -x ELSE x

\* q is total / count with the fraction discarded.
IsTruncation(q, total, count) ==
    /\ Abs(q) * count <= Abs(total)
    /\ Abs(total) < (Abs(q) + 1) * count
    /\ (total >= 0 => q >= 0)
    /\ (total <= 0 => q <= 0)

\* C8 (as claimed): for every group and metric the reported average is
\* floor(sum / count) when count > 0 and 0 otherwise, and
\* 0 <= average <= max(scores of the group).
C8_FloorAverage ==
    Built =>
        \A n \in 1..Len(Table.adin_id) : \A m \in Metrics :
            LET rows == Carrying(Table.adin_id[n], m)
            IN  /\ rows # {} => Table[m][n] = SumScores(rows, m) \div Cardinality(rows)
                /\ rows = {} => Table[m][n] = 0
                /\ 0 <= Table[m][n]
                /\ rows # {} => Table[m][n] <= MaxScore(rows, m)

\* C8 (amended): for every group and metric the count is positive and the
\* reported average is sum / count truncated toward zero; when no score of the
\* group is negative that is floor(sum / count), and 0 <= average <= max(scores
\* of the group).
C8_TruncatedAverage ==
    Built =>
        \A n \in 1..Len(Table.adin_id) : \A m \in Metrics :
            LET rows == Carrying(Table.adin_id[n], m)
            IN  /\ rows # {}
                /\ rows = ScoresOf(Table.adin_id[n])
                /\ IsTruncation(Table[m][n], SumScores(rows, m), Cardinality(rows))
                /\ (\A r \in rows : dailyScores[r][m][1] >= 0) =>
                      /\ Table[m][n] = SumScores(rows, m) \div Cardinality(rows)
                      /\ 0 <= Table[m][n]
                      /\ Table[m][n] <= MaxScore(rows, m)

\* C8 witness: a group of two rows with effectiveness 7 and 8 reports 7.
C8_Witness ==
    /\ Built
    /\ \E n \in 1..Len(Table.adin_id) :
          /\ Cardinality(ScoresOf(Table.adin_id[n])) = 2
          /\ SumScores(ScoresOf(Table.adin_id[n]), "effectiveness") = 15
          /\ Table.effectiveness[n] = 7

\* C10 (as claimed): a row in which a score is absent does not abort the
\* request, adds to neither the sum nor the count of that metric, and still
\* adds to the metrics it carries; a metric no row of a group carries is
\* reported as 0.
C10_MissingScoresSkipped ==
    /\ (Served /\ \E r \in 1..Len(dailyScores) : \E m \in Metrics : dailyScores[r][m] = None)
          => response.status # 500
    /\ Built =>
          \A n \in 1..Len(Table.adin_id) : \A m \in Metrics :
              LET rows == Carrying(Table.adin_id[n], m)
              IN  /\ rows # {} =>
                        IsTruncation(Table[m][n], SumScores(rows, m), Cardinality(rows))
                  /\ rows = {} => Table[m][n] = 0

----------------------------------------------------------------------------
(* Missing window bound                                                    *)

\* The last request got past the campaign card: its scope is 'All', or a
\* campaign whose name and dates were found.  (No date of a score row of
\* these tables fails to parse.)
ReachedTrend ==
    /\ Served
    /\ Truthy(scope)
    /\ scope # Some("All") => (NameFound(scope[1]) /\ DatesFound(scope[1]))

BoundMissing == request.start_date = None \/ request.end_date = None

\* C11 (as claimed): every request that reaches the trend with start or end
\* absent aborts with a fatal error and no facet, in both scopes, whatever
\* daily rows the scope has, none included.
C11_MissingBoundAlwaysFatal ==
    (ReachedTrend /\ BoundMissing) =>
        (response.status = 500 /\ response.data = EmptyData)

\* C11 (amended): a request that reaches the trend with start or end absent
\* aborts with a fatal error (TypeError) and no facet when its scope has at
\* least one daily row, in both scopes; when the scope has no daily row, which
\* only 'All' over an empty table has, the bounds are never parsed and the
\* request succeeds, the trend it builds having no date.
C11_MissingBoundFatalWithRows ==
    (ReachedTrend /\ BoundMissing) =>
        /\ ScopeRows # {} =>
              /\ response.status = 500
              /\ response.error = "TypeError"
              /\ response.data = EmptyData
              /\ response_data = EmptyData
        /\ ScopeRows = {} =>
              /\ scope = Some("All")
              /\ dailyCampaigns = <<>>
              /\ response.status = 200
              /\ response_data.volumeUnitCostTrend = Some([impression |-> <<>>, cpm |-> <<>>])

\* C11 witness: a single-campaign request with start present and end absent
\* reached the trend over a row of the campaign and was answered 500.
C11_Witness ==
    /\ ReachedTrend
    /\ scope = Some("c1")
    /\ request.start_date # None
    /\ request.end_date = None
    /\ ScopeRows # {}
    /\ response.status = 500

----------------------------------------------------------------------------
(* Grouping of the campaign table                                          *)

ScoreIds == {dailyScores[r].campaign_id : r \in 1..Len(dailyScores)}

\* The first score row of campaign id.
FirstOf(id) == Min(ScoresOf(id))

====
